---- MODULE Spec2Model ----
(***************************************************************************)
(* ChessConnect: game sessions, moves, resignation, draw negotiation,      *)
(* rating updates and the computer opponent, modelled from                 *)
(* server/routes.ts, server/storage.ts and server/bot.ts.                  *)
(*                                                                         *)
(* Spec      every request handler runs to completion before the next one  *)
(*           starts (serial execution).                                    *)
(* SpecConc  the move and resign handlers are split at their awaited       *)
(*           storage calls, and requests may interleave there.             *)
(* SpecMatch the matchmaking requests, each run to completion.             *)
(* SpecMatchConc  the matchmaking handler split at its awaited storage     *)
(*           calls.                                                        *)
(* SpecCreate  session creation from a request body and from a pairing.    *)
(* SpecRating  the rating updater applied to any sequence of outcomes.     *)
(* SpecBot     a ChessBot instance asked for a move in any position.       *)
(* SpecFail    moves and matchmaking with storage calls that may throw.    *)
(* SpecSearch  the minimax search called on any position, depth and side.  *)
(* SpecRatingConc  the rating updater split at its read and its write.     *)
(***************************************************************************)
EXTENDS Integers, Sequences, FiniteSets, TLC

VARIABLES
    games,       \* GameModel collection: sequence of game documents, index = id
    gameMoves,   \* GameMoveModel collection, in insertion order
    users,       \* UserModel collection: rating record of every human identity
    drawOffers,  \* pending draw offers: set of [gameId, playerId]
    statCalls,   \* history: number of updateUserStats calls per <<game, user>>
    accepted,    \* history: number of move submissions answered 200, per game
    queue,       \* MatchmakingQueueModel collection, in order of createdAt
    requests,    \* history: number of matchmaking requests made, per identity
    reqs,        \* requests suspended at an await (SpecConc only)
    response     \* the last command and the answer it received

vars == <<games, gameMoves, users, drawOffers, statCalls, accepted, queue,
          requests, reqs, response>>

----------------------------------------------------------------------------
(* Bounds of the model *)

MaxMoves == 3
MaxGamesPlayed == 2
MaxInflight == 2
MaxQueue == 3
MaxMatches == 2
MaxRatedGames == 18
MaxDepth == 4
MaxRequests == 2

(* Program constants *)

DefaultRating == 1200
DefaultTimeControl == 600
RatingFloor == 800
WinDelta == 25
DrawDelta == 5
DefaultRatingRange == 200
SearchDepth == 3
Infinity == 1000

----------------------------------------------------------------------------
(* Identities.  A bot identity is "bot_<difficulty>_<timestamp>"; the code  *)
(* recognises it by the prefix "bot_" and reads the difficulty from it.     *)

Humans == {"u1", "u2", "u3"}
Difficulties == {"easy", "medium", "hard"}
BotId(difficulty) ==
    CASE difficulty = "easy"   -> "bot_easy"
      [] difficulty = "medium" -> "bot_medium"
      [] difficulty = "hard"   -> "bot_hard"
Bots == {BotId(d) : d \in Difficulties}
NoPlayer == "none"
NoResult == "unset"

startsWithBot(id) == id \in Bots
botDifficulty(id) == CHOOSE d \in Difficulties : BotId(d) = id

TimeControls == {DefaultTimeControl}
DeclaredClocks == {595, 605}

----------------------------------------------------------------------------
(* The rules engine (chess.js) on a small game graph.  A position is named *)
(* by its FEN; the side to move, the legal moves in enumeration order, the *)
(* material balance and the terminal flags are functions of the position.  *)

StartFen == "S"

\* R1..R5 is a line of its own, not reached from the starting position: a
\* rook is offered (R1-R3), taken by White (R4) and taken back (R5).
Positions == {"S", "A", "B", "C", "D", "MW", "MB", "SM", "DR",
              "R1", "R2", "R3", "R4", "R5"}

chessTurn(fen) ==
    IF fen \in {"S", "C", "D", "MB", "R1", "R3", "R5"} THEN "w" ELSE "b"

chessMoves(fen) ==
    CASE fen = "S"  -> <<"e4", "d4">>
      [] fen = "A"  -> <<"e5", "c5">>
      [] fen = "B"  -> <<"d5", "Qh4#">>
      [] fen = "C"  -> <<"Qxf7#", "Qh5", "Nf3">>
      [] fen = "D"  -> <<"Nc3", "Bxf7">>
      [] fen = "DR" -> <<"Kxf7">>
      [] fen = "R1" -> <<"Rd1">>
      [] fen = "R2" -> <<"Rd8">>
      [] fen = "R3" -> <<"Rxd8">>
      [] fen = "R4" -> <<"Qxd8">>
      [] fen = "R5" -> <<"Kg2">>
      [] OTHER      -> <<>>

chessApply(fen, san) ==
    CASE fen = "S"  /\ san = "e4"    -> "A"
      [] fen = "S"  /\ san = "d4"    -> "B"
      [] fen = "A"  /\ san = "e5"    -> "C"
      [] fen = "A"  /\ san = "c5"    -> "D"
      [] fen = "B"  /\ san = "d5"    -> "D"
      [] fen = "B"  /\ san = "Qh4#"  -> "MB"
      [] fen = "C"  /\ san = "Qxf7#" -> "MW"
      [] fen = "C"  /\ san = "Qh5"   -> "SM"
      [] fen = "C"  /\ san = "Nf3"   -> "A"
      [] fen = "D"  /\ san = "Nc3"   -> "A"
      [] fen = "D"  /\ san = "Bxf7"  -> "DR"
      [] fen = "DR" /\ san = "Kxf7"  -> "D"
      [] fen = "R1" /\ san = "Rd1"   -> "R2"
      [] fen = "R2" /\ san = "Rd8"   -> "R3"
      [] fen = "R3" /\ san = "Rxd8"  -> "R4"
      [] fen = "R4" /\ san = "Qxd8"  -> "R5"
      [] fen = "R5" /\ san = "Kg2"   -> "R2"
      [] OTHER                       -> fen

Range(s) == {s[i] : i \in DOMAIN s}

\* The moves a caller submits in a position: its legal moves, a move that is
\* legal only elsewhere, and a move that is legal nowhere.
SubmittedMoves(fen) == Range(chessMoves(fen)) \cup {"e4", "Ke9"}

chessLegal(fen, san) == san \in Range(chessMoves(fen))

isCheckmate(fen) == fen \in {"MW", "MB"}
isStalemate(fen) == fen = "SM"
isDraw(fen) == fen \in {"SM", "DR"}
isCheck(fen) == fen \in {"MW", "MB", "DR"}
isGameOver(fen) == isCheckmate(fen) \/ isStalemate(fen) \/ isDraw(fen)

material(fen) ==
    CASE fen = "MW" -> 1
      [] fen = "SM" -> 9
      [] fen = "DR" -> 1
      [] fen = "D"  -> -1
      [] fen = "R4" -> 5
      [] OTHER      -> 0

----------------------------------------------------------------------------
(* ChessBot (server/bot.ts) *)

Max(a, b) == IF a >= b THEN a ELSE b
Min(a, b) == IF a <= b THEN a ELSE b

evaluatePosition(fen) == material(fen)

RECURSIVE minimax(_, _, _, _, _)
RECURSIVE minimaxLoop(_, _, _, _, _, _, _)
RECURSIVE minimaxLoopEarlyBreak(_, _, _, _, _, _, _)

\* Variant: the loop breaks as soon as alpha has left -Infinity and beta
\* +Infinity, whether or not they have met.
minimaxLoopEarlyBreak(fen, i, depth, alpha, beta, isMaximizing, best) ==
    IF i > Len(chessMoves(fen)) THEN best
    ELSE LET evaluation == minimax(chessApply(fen, chessMoves(fen)[i]), depth - 1,
                                   alpha, beta, ~isMaximizing)
             newBest  == IF isMaximizing THEN Max(best, evaluation)
                                         ELSE Min(best, evaluation)
             newAlpha == IF isMaximizing THEN Max(alpha, evaluation) ELSE alpha
             newBeta  == IF isMaximizing THEN beta ELSE Min(beta, evaluation)
         IN  IF newBeta < Infinity /\ newAlpha > -Infinity THEN newBest
             ELSE minimaxLoopEarlyBreak(fen, i + 1, depth, newAlpha, newBeta,
                                        isMaximizing, newBest)

\* The for-loop of minimax over the moves from index i on, with its break.
minimaxLoop(fen, i, depth, alpha, beta, isMaximizing, best) ==
    IF i > Len(chessMoves(fen)) THEN best
    ELSE LET evaluation == minimax(chessApply(fen, chessMoves(fen)[i]), depth - 1,
                                   alpha, beta, ~isMaximizing)
             newBest  == IF isMaximizing THEN Max(best, evaluation)
                                         ELSE Min(best, evaluation)
             newAlpha == IF isMaximizing THEN Max(alpha, evaluation) ELSE alpha
             newBeta  == IF isMaximizing THEN beta ELSE Min(beta, evaluation)
         IN  IF newBeta <= newAlpha THEN newBest
             ELSE minimaxLoop(fen, i + 1, depth, newAlpha, newBeta, isMaximizing,
                              newBest)

minimax(fen, depth, alpha, beta, isMaximizing) ==
    IF depth = 0 \/ isGameOver(fen) THEN evaluatePosition(fen)
    ELSE minimaxLoop(fen, 1, depth, alpha, beta, isMaximizing,
                     IF isMaximizing THEN -Infinity ELSE Infinity)

RECURSIVE firstBestOrEqual(_, _, _, _)
\* Variant: a candidate also replaces the best when its score is equal.
firstBestOrEqual(scores, i, bestIdx, bestEvaluation) ==
    IF i > Len(scores) THEN bestIdx
    ELSE IF scores[i] >= bestEvaluation
         THEN firstBestOrEqual(scores, i + 1, i, scores[i])
         ELSE firstBestOrEqual(scores, i + 1, bestIdx, bestEvaluation)

RECURSIVE firstBest(_, _, _, _)
\* "if (evaluation > bestEvaluation)": the index of the first strictly
\* greatest score, starting from bestMove = moves[0], bestEvaluation = -Infinity.
firstBest(scores, i, bestIdx, bestEvaluation) ==
    IF i > Len(scores) THEN bestIdx
    ELSE IF scores[i] > bestEvaluation
         THEN firstBest(scores, i + 1, i, scores[i])
         ELSE firstBest(scores, i + 1, bestIdx, bestEvaluation)

\* Variant: any move a caller might name, legal in the position or not.
getRandomMoveAnywhere(fen) == SubmittedMoves(fen)

getRandomMove(fen) == Range(chessMoves(fen))

\* Scores in half points: 2 * material, +1 for a check, plus the noise
\* (Math.random() - 0.5) * 2 in [-1, 1), sampled at half-point steps.
NoiseSteps == {-2, -1, 0, 1}

mediumScore(fen, san, noise) ==
    2 * evaluatePosition(chessApply(fen, san))
      + (IF isCheck(chessApply(fen, san)) THEN 1 ELSE 0) + noise

getMediumMove(fen) ==
    LET moves == chessMoves(fen)
    IN  { moves[firstBest([i \in DOMAIN moves |-> mediumScore(fen, moves[i], n[i])],
                          1, 1, -2 * Infinity)] :
            n \in [DOMAIN moves -> NoiseSteps] }

hardScore(fen, san) ==
    minimax(chessApply(fen, san), SearchDepth, -Infinity, Infinity,
            ~(chessTurn(fen) = "w"))

\* Variant: no default best move, and the search starts at the second
\* candidate.
getHardMoveFromSecond(fen) ==
    LET moves == chessMoves(fen)
    IN  { IF Len(moves) < 2 THEN ""
          ELSE moves[firstBest([i \in DOMAIN moves |-> hardScore(fen, moves[i])],
                               2, 2, -Infinity)] }

getHardMove(fen) ==
    LET moves == chessMoves(fen)
    IN  { moves[firstBest([i \in DOMAIN moves |-> hardScore(fen, moves[i])],
                          1, 1, -Infinity)] }

\* "return { move: bestMove, evaluation: bestEvaluation }" of getHardMove
hardEvaluation(fen) ==
    LET moves == chessMoves(fen)
        scores == [i \in DOMAIN moves |-> hardScore(fen, moves[i])]
    IN  scores[firstBest(scores, 1, 1, -Infinity)]

\* getRandomMove returns no evaluation.
NoEvaluation == -Infinity

\* The BotMove records getMediumMove can return, the evaluation in half
\* points, each with the noise Math.random() gave for the candidates.
getMediumMoveData(fen) ==
    LET moves == chessMoves(fen)
    IN  { LET scores == [i \in DOMAIN moves |-> mediumScore(fen, moves[i], n[i])]
              best == firstBest(scores, 1, 1, -2 * Infinity)
          IN  [move |-> moves[best], evaluation |-> scores[best], noise |-> n] :
            n \in [DOMAIN moves -> NoiseSteps] }

\* The set of moves getBestMove can return; empty when it throws
\* "No legal moves available".
getBestMove(fen, difficulty) ==
    IF Len(chessMoves(fen)) = 0 THEN {}
    ELSE CASE difficulty = "easy"   -> getRandomMove(fen)
           [] difficulty = "medium" -> getMediumMove(fen)
           [] difficulty = "hard"   -> getHardMove(fen)
           [] OTHER                 -> getRandomMove(fen)

----------------------------------------------------------------------------
(* DatabaseStorage (server/storage.ts).  Each operation maps a database    *)
(* value d = [games, gameMoves, users, drawOffers, statCalls, queue] to    *)
(* the database after it.                                                  *)

DB == [games |-> games, gameMoves |-> gameMoves, users |-> users,
       drawOffers |-> drawOffers, statCalls |-> statCalls, queue |-> queue,
       requests |-> requests]

\* The fields the caller gave, then the fields createGame always sets.
createGame(d, game) ==
    [d EXCEPT !.games = Append(@,
        [status |-> "active", currentTurn |-> "white", moveCount |-> 0,
         fen |-> StartFen] @@ game)]

getGame(d, id) == d.games[id]

\* findByIdAndUpdate: the keys present in updates are set, the others kept
\* (a key whose value is undefined is not part of updates).
updateGame(d, id, updates) == [d EXCEPT !.games[id] = updates @@ @]

addGameMove(d, move) == [d EXCEPT !.gameMoves = Append(@, move)]

getGameMoves(d, gameId) == SelectSeq(d.gameMoves, LAMBDA m : m.gameId = gameId)

\* Variant: a draw is counted among the wins.
userStatsUpdatesDrawAsWin(user, result) ==
    CASE result = "win" ->
           [gamesPlayed |-> user.gamesPlayed + 1, wins |-> user.wins + 1,
            rating |-> user.rating + WinDelta]
      [] result = "loss" ->
           [gamesPlayed |-> user.gamesPlayed + 1, losses |-> user.losses + 1,
            rating |-> Max(RatingFloor, user.rating - WinDelta)]
      [] OTHER ->
           [gamesPlayed |-> user.gamesPlayed + 1, wins |-> user.wins + 1,
            rating |-> user.rating + DrawDelta]

\* Variant: a loss takes its 25 points with no floor.
userStatsUpdatesNoFloor(user, result) ==
    CASE result = "win" ->
           [gamesPlayed |-> user.gamesPlayed + 1, wins |-> user.wins + 1,
            rating |-> user.rating + WinDelta]
      [] result = "loss" ->
           [gamesPlayed |-> user.gamesPlayed + 1, losses |-> user.losses + 1,
            rating |-> user.rating - WinDelta]
      [] OTHER ->
           [gamesPlayed |-> user.gamesPlayed + 1, draws |-> user.draws + 1,
            rating |-> user.rating + DrawDelta]

userStatsUpdates(user, result) ==
    CASE result = "win" ->
           [gamesPlayed |-> user.gamesPlayed + 1, wins |-> user.wins + 1,
            rating |-> user.rating + WinDelta]
      [] result = "loss" ->
           [gamesPlayed |-> user.gamesPlayed + 1, losses |-> user.losses + 1,
            rating |-> Max(RatingFloor, user.rating - WinDelta)]
      [] OTHER ->
           [gamesPlayed |-> user.gamesPlayed + 1, draws |-> user.draws + 1,
            rating |-> user.rating + DrawDelta]

updateUserStats(d, userId, result) ==
    IF userId \notin DOMAIN d.users THEN d
    ELSE [d EXCEPT !.users[userId] = userStatsUpdates(@, result) @@ @]

\* "const user = await this.getUser(id); if (!user) ..."
hasUser(d, id) == id \in DOMAIN d.users

\* No entry found (undefined).
NoEntry == [playerId |-> NoPlayer]

\* The query with the sort order reversed: the newest entry first.
findMatchmakingOpponentNewest(d, playerId, timeControl, ratingRange) ==
    LET found == {i \in DOMAIN d.queue :
                    /\ d.queue[i].playerId # playerId
                    /\ d.queue[i].timeControl = timeControl}
    IN  IF ~hasUser(d, playerId) \/ found = {} THEN NoEntry
        ELSE d.queue[CHOOSE i \in found : \A j \in found : i >= j]

\* deleteOne instead of deleteMany: the oldest entry of the player only.
removeFromMatchmakingOne(d, playerId) ==
    LET own == {i \in DOMAIN d.queue : d.queue[i].playerId = playerId}
    IN  IF own = {} THEN d
        ELSE LET first == CHOOSE i \in own : \A j \in own : i <= j
             IN  [d EXCEPT !.queue = SubSeq(@, 1, first - 1)
                                       \o SubSeq(@, first + 1, Len(@))]

\* A new entry is saved after the entries already in the collection.
addToMatchmaking(d, entry) == [d EXCEPT !.queue = Append(@, entry)]

\* The oldest entry of another player with the same time control; ratingRange
\* is not part of the query.
findMatchmakingOpponent(d, playerId, timeControl, ratingRange) ==
    LET found == {i \in DOMAIN d.queue :
                    /\ d.queue[i].playerId # playerId
                    /\ d.queue[i].timeControl = timeControl}
    IN  IF ~hasUser(d, playerId) \/ found = {} THEN NoEntry
        ELSE d.queue[CHOOSE i \in found : \A j \in found : i <= j]

\* deleteMany({ playerId })
removeFromMatchmaking(d, playerId) ==
    [d EXCEPT !.queue = SelectSeq(@, LAMBDA e : e.playerId # playerId)]

isPlayerInQueue(d, playerId) ==
    \E i \in DOMAIN d.queue : d.queue[i].playerId = playerId

\* Draw offers are kept per game as the identity that placed the offer.
addDrawOffer(d, gameId, userId) == [d EXCEPT !.drawOffers[gameId] = userId]
removeDrawOffers(d, gameId) == [d EXCEPT !.drawOffers[gameId] = NoPlayer]

----------------------------------------------------------------------------
(* Route handlers (server/routes.ts), as functions on the database *)

\* "if (id && !id.startsWith('bot_')) await storage.updateUserStats(id, r)"
creditStats(d, gameId, playerId, result) ==
    IF playerId # NoPlayer /\ ~startsWithBot(playerId)
    THEN [updateUserStats(d, playerId, result)
            EXCEPT !.statCalls[<<gameId, playerId>>] = @ + 1]
    ELSE d

\* The three-way stats update after a move that ended the game.
moveStats(d, gameId, game, result) ==
    CASE result = "white_wins" ->
           creditStats(creditStats(d, gameId, game.whitePlayerId, "win"),
                       gameId, game.blackPlayerId, "loss")
      [] result = "black_wins" ->
           creditStats(creditStats(d, gameId, game.blackPlayerId, "win"),
                       gameId, game.whitePlayerId, "loss")
      [] OTHER ->
           creditStats(creditStats(d, gameId, game.whitePlayerId, "draw"),
                       gameId, game.blackPlayerId, "draw")

isWhitePlayer(game, userId) == game.whitePlayerId = userId
isBlackPlayer(game, userId) == game.blackPlayerId = userId
isPlayer(game, userId) == isWhitePlayer(game, userId) \/ isBlackPlayer(game, userId)
isPlayerTurn(game, userId) ==
    \/ game.currentTurn = "white" /\ isWhitePlayer(game, userId)
    \/ game.currentTurn = "black" /\ isBlackPlayer(game, userId)

otherTurn(turn) == IF turn = "white" THEN "black" ELSE "white"

\* The moves handler without its "if (!move)" answer.
moveAnswersNoLegality(game, userId, san) ==
    IF ~isPlayer(game, userId)
    THEN {[code |-> 403, message |-> "Not a player in this game"]}
    ELSE IF ~isPlayerTurn(game, userId)
    THEN {[code |-> 400, message |-> "Not your turn"]}
    ELSE {[code |-> 200, message |-> "ok"]}

\* The moves handler testing the turn before the participant.
moveAnswersTurnFirst(game, userId, san) ==
    IF ~isPlayerTurn(game, userId)
    THEN {[code |-> 400, message |-> "Not your turn"]}
    ELSE IF ~isPlayer(game, userId)
    THEN {[code |-> 403, message |-> "Not a player in this game"]}
    ELSE IF ~chessLegal(game.fen, san)
    THEN {[code |-> 400, message |-> "Invalid move"],
          [code |-> 500, message |-> "Failed to make move"]}
    ELSE {[code |-> 200, message |-> "ok"]}

\* The answers of POST /api/games/:id/moves before anything is written.
\* chess.move answers an illegal move with null (400) or by throwing (500),
\* depending on the chess.js release.
moveAnswers(game, userId, san) ==
    IF ~isPlayer(game, userId)
    THEN {[code |-> 403, message |-> "Not a player in this game"]}
    ELSE IF ~isPlayerTurn(game, userId)
    THEN {[code |-> 400, message |-> "Not your turn"]}
    ELSE IF ~chessLegal(game.fen, san)
    THEN {[code |-> 400, message |-> "Invalid move"],
          [code |-> 500, message |-> "Failed to make move"]}
    ELSE {[code |-> 200, message |-> "ok"]}

moveRecord(gameId, game, san, timeRemaining) ==
    [gameId |-> gameId, moveNumber |-> game.moveCount + 1, move |-> san,
     fen |-> chessApply(game.fen, san), timeRemaining |-> timeRemaining]

\* result after the mover's move led to newFen; game is the game as read
\* before the move.
moveResult(game, newFen) ==
    IF isCheckmate(newFen)
    THEN (IF game.currentTurn = "white" THEN "black_wins" ELSE "white_wins")
    ELSE IF isDraw(newFen) \/ isStalemate(newFen) THEN "draw"
    ELSE NoResult

\* The game update writing the declared clock to the side that did not move.
moveUpdatesOtherClock(game, userId, san, timeRemaining) ==
    LET newFen == chessApply(game.fen, san)
        result == moveResult(game, newFen)
    IN  (IF result # NoResult THEN [result |-> result] ELSE <<>>) @@
        [fen |-> newFen,
         currentTurn |-> otherTurn(game.currentTurn),
         moveCount |-> game.moveCount + 1,
         status |-> IF isGameOver(newFen) THEN "completed" ELSE "active",
         whiteTimeRemaining |-> IF isBlackPlayer(game, userId) THEN timeRemaining
                                ELSE game.whiteTimeRemaining,
         blackTimeRemaining |-> IF isWhitePlayer(game, userId) THEN timeRemaining
                                ELSE game.blackTimeRemaining]

moveUpdates(game, userId, san, timeRemaining) ==
    LET newFen == chessApply(game.fen, san)
        result == moveResult(game, newFen)
    IN  (IF result # NoResult THEN [result |-> result] ELSE <<>>) @@
        [fen |-> newFen,
         currentTurn |-> otherTurn(game.currentTurn),
         moveCount |-> game.moveCount + 1,
         status |-> IF isGameOver(newFen) THEN "completed" ELSE "active",
         whiteTimeRemaining |-> IF isWhitePlayer(game, userId) THEN timeRemaining
                                ELSE game.whiteTimeRemaining,
         blackTimeRemaining |-> IF isBlackPlayer(game, userId) THEN timeRemaining
                                ELSE game.blackTimeRemaining]

\* Variant: the reply is not conditioned on the game being active.
botToReplyAnyStatus(updatedGame) ==
    LET opponentId == IF updatedGame.currentTurn = "white"
                      THEN updatedGame.whitePlayerId ELSE updatedGame.blackPlayerId
    IN  IF opponentId # NoPlayer /\ startsWithBot(opponentId)
        THEN opponentId ELSE NoPlayer

\* Variant: the reply is decided on the White identity whatever the turn.
botToReplyWhiteOnly(updatedGame) ==
    LET opponentId == updatedGame.whitePlayerId
    IN  IF updatedGame.status = "active" /\ opponentId # NoPlayer
           /\ startsWithBot(opponentId)
        THEN opponentId ELSE NoPlayer

\* The identity to move in updatedGame when it is a bot that must reply,
\* NoPlayer otherwise.
botToReply(updatedGame) ==
    LET opponentId == IF updatedGame.currentTurn = "white"
                      THEN updatedGame.whitePlayerId ELSE updatedGame.blackPlayerId
    IN  IF updatedGame.status = "active" /\ opponentId # NoPlayer
           /\ startsWithBot(opponentId)
        THEN opponentId ELSE NoPlayer

botResult(updatedGame, newFen) ==
    IF isCheckmate(newFen)
    THEN (IF updatedGame.currentTurn = "white" THEN "white_wins" ELSE "black_wins")
    ELSE IF isDraw(newFen) \/ isStalemate(newFen) THEN "draw"
    ELSE NoResult

botUpdates(updatedGame, san) ==
    LET newFen == chessApply(updatedGame.fen, san)
        result == botResult(updatedGame, newFen)
    IN  (IF result # NoResult THEN [result |-> result] ELSE <<>>) @@
        [fen |-> newFen,
         currentTurn |-> otherTurn(updatedGame.currentTurn),
         moveCount |-> updatedGame.moveCount + 1,
         status |-> IF isGameOver(newFen) THEN "completed" ELSE "active"]

\* The bot's reply: its move record, then the game update.
botReply(d, gameId, updatedGame, san) ==
    updateGame(
        addGameMove(d, moveRecord(gameId, updatedGame, san,
            IF updatedGame.currentTurn = "white" THEN updatedGame.whiteTimeRemaining
            ELSE updatedGame.blackTimeRemaining)),
        gameId, botUpdates(updatedGame, san))

\* A resignation credited to the resigner instead of the opponent.
resignResultSwapped(game, userId) ==
    IF game.whitePlayerId = userId THEN "white_wins" ELSE "black_wins"

resignResult(game, userId) ==
    IF game.whitePlayerId = userId THEN "black_wins" ELSE "white_wins"

resignStats(d, gameId, game, result) ==
    IF result = "white_wins"
    THEN creditStats(creditStats(d, gameId, game.whitePlayerId, "win"),
                     gameId, game.blackPlayerId, "loss")
    ELSE creditStats(creditStats(d, gameId, game.blackPlayerId, "win"),
                     gameId, game.whitePlayerId, "loss")

----------------------------------------------------------------------------
(* State *)

\* One session: sessions share nothing but the users' rating records.
GameSlots == {1}
ReqSlots == 1..MaxInflight
NoReq == [op |-> "idle"]

newUser == [rating |-> DefaultRating, gamesPlayed |-> 0, wins |-> 0,
            losses |-> 0, draws |-> 0]

Init ==
    /\ games = <<>>
    /\ gameMoves = <<>>
    /\ users = [u \in Humans |-> newUser]
    /\ drawOffers = [g \in GameSlots |-> NoPlayer]
    /\ statCalls = [p \in GameSlots \X Humans |-> 0]
    /\ accepted = [g \in GameSlots |-> 0]
    /\ queue = <<>>
    /\ requests = [u \in Humans |-> 0]
    /\ reqs = [s \in ReqSlots |-> NoReq]
    /\ response = [op |-> "none", gameId |-> 0, userId |-> NoPlayer,
                   code |-> 0, message |-> ""]

Commit(d) ==
    /\ games' = d.games
    /\ gameMoves' = d.gameMoves
    /\ users' = d.users
    /\ drawOffers' = d.drawOffers
    /\ statCalls' = d.statCalls
    /\ queue' = d.queue
    /\ requests' = d.requests

Respond(op, gameId, userId, answer) ==
    response' = [op |-> op, gameId |-> gameId, userId |-> userId,
                 code |-> answer.code, message |-> answer.message]

\* The answer to a move submission, with the move and the clock it declared.
RespondMove(gameId, userId, san, timeRemaining, answer) ==
    response' = [op |-> "move", gameId |-> gameId, userId |-> userId,
                 code |-> answer.code, message |-> answer.message,
                 san |-> san, timeRemaining |-> timeRemaining]

\* The answer to a draw command, with the offer that was pending when the
\* command arrived.
RespondDrawOffer(gameId, userId, answer) ==
    response' = [op |-> "drawOffer", gameId |-> gameId, userId |-> userId,
                 code |-> answer.code, message |-> answer.message,
                 pending |-> drawOffers[gameId]]

RespondDrawResponse(gameId, userId, accept, answer) ==
    response' = [op |-> "drawResponse", gameId |-> gameId, userId |-> userId,
                 code |-> answer.code, message |-> answer.message,
                 accept |-> accept, pending |-> drawOffers[gameId]]

Ok == [code |-> 200, message |-> "ok"]

GameIds == 1..Len(games)

\* Rating counters are capped so that the state space stays finite.
CanRate == \A u \in Humans : users[u].gamesPlayed < MaxGamesPlayed

\* So are the move records of a game, counting the submissions in flight
\* that have still to write theirs.
MovesLeft(gameId) ==
    Len(getGameMoves(DB, gameId))
      + Cardinality({s \in DOMAIN reqs :
            /\ reqs[s].op = "move"
            /\ reqs[s].gameId = gameId
            /\ reqs[s].stage = "addGameMove"}) < MaxMoves

----------------------------------------------------------------------------
(* Commands, each handler run to completion *)

\* POST /api/games
PostGame(userId, blackPlayerId, timeControl) ==
    /\ Len(games) + 1 \in GameSlots
    /\ Commit(createGame(DB,
          [whitePlayerId |-> userId, blackPlayerId |-> blackPlayerId,
           result |-> NoResult, timeControl |-> timeControl,
           whiteTimeRemaining |-> timeControl,
           blackTimeRemaining |-> timeControl]))
    /\ Respond("create", Len(games) + 1, userId, Ok)
    /\ UNCHANGED <<accepted, reqs>>

\* POST /api/games/bot
PostBotGame(userId, difficulty, playerColor, timeControl) ==
    /\ Len(games) + 1 \in GameSlots
    /\ LET botId == BotId(difficulty)
           gameId == Len(games) + 1
           d1 == createGame(DB,
                   [whitePlayerId |-> IF playerColor = "white" THEN userId ELSE botId,
                    blackPlayerId |-> IF playerColor = "white" THEN botId ELSE userId,
                    result |-> NoResult, timeControl |-> timeControl,
                    whiteTimeRemaining |-> timeControl,
                    blackTimeRemaining |-> timeControl])
       IN  IF playerColor = "black"
           THEN \E san \in getBestMove(StartFen, difficulty) :
                  /\ Commit(updateGame(
                        addGameMove(d1,
                          [gameId |-> gameId, moveNumber |-> 1, move |-> san,
                           fen |-> chessApply(StartFen, san),
                           timeRemaining |-> timeControl]),
                        gameId,
                        [fen |-> chessApply(StartFen, san),
                         currentTurn |-> "black", moveCount |-> 1]))
                  /\ accepted' = [accepted EXCEPT ![gameId] = @ + 1]
           ELSE Commit(d1) /\ UNCHANGED accepted
    /\ Respond("createBot", Len(games) + 1, userId, Ok)
    /\ UNCHANGED reqs

\* The writes of POST /api/games/:id/moves after the move was validated
\* against game: the move record, then the game update and the stats.
moveUpdateAndStats(d, gameId, game, userId, san, timeRemaining) ==
    LET d2 == updateGame(d, gameId, moveUpdates(game, userId, san, timeRemaining))
        result == moveResult(game, chessApply(game.fen, san))
    IN  IF result # NoResult THEN moveStats(d2, gameId, game, result) ELSE d2

moveWrites(d, gameId, game, userId, san, timeRemaining) ==
    moveUpdateAndStats(
        addGameMove(d, moveRecord(gameId, game, san, timeRemaining)),
        gameId, game, userId, san, timeRemaining)

\* The end of the move handler on database d3: the bot's reply when the
\* updated game is active with a bot to move, and the answer.
FinishMove(d3, gameId) ==
    LET updatedGame == getGame(d3, gameId)
        bot == botToReply(updatedGame)
        replies == IF bot = NoPlayer THEN {}
                   ELSE getBestMove(updatedGame.fen, botDifficulty(bot))
    IN  IF replies = {}
        THEN /\ Commit(d3)
             /\ accepted' = [accepted EXCEPT ![gameId] = @ + 1]
        ELSE \E reply \in replies :
               /\ Commit(botReply(d3, gameId, updatedGame, reply))
               /\ accepted' = [accepted EXCEPT ![gameId] = @ + 2]

\* POST /api/games/:id/moves
PostMove(gameId, userId, san, timeRemaining) ==
    /\ CanRate
    /\ MovesLeft(gameId)
    /\ LET game == getGame(DB, gameId)
       IN  \E answer \in moveAnswers(game, userId, san) :
             /\ RespondMove(gameId, userId, san, timeRemaining, answer)
             /\ IF answer.code # 200
                THEN UNCHANGED <<games, gameMoves, users, drawOffers, statCalls,
                                 queue, requests, accepted>>
                ELSE FinishMove(moveWrites(DB, gameId, game, userId, san,
                                           timeRemaining), gameId)
    /\ UNCHANGED reqs

resignAnswer(game, userId) ==
    IF ~isPlayer(game, userId)
    THEN [code |-> 403, message |-> "Not a player in this game"]
    ELSE Ok

resignWrites(d, gameId, game, userId) ==
    LET result == resignResult(game, userId)
    IN  resignStats(updateGame(d, gameId,
                               [status |-> "completed", result |-> result]),
                    gameId, game, result)

\* POST /api/games/:id/resign
PostResign(gameId, userId) ==
    /\ CanRate
    /\ LET game == getGame(DB, gameId)
           answer == resignAnswer(game, userId)
       IN  /\ Respond("resign", gameId, userId, answer)
           /\ IF answer.code # 200
              THEN UNCHANGED <<games, gameMoves, users, drawOffers, statCalls, queue, requests>>
              ELSE Commit(resignWrites(DB, gameId, game, userId))
    /\ UNCHANGED <<accepted, reqs>>

\* The draw handlers without their "Game is not active" answer.
drawAnswerNoStatus(game, userId) ==
    IF ~isPlayer(game, userId)
    THEN [code |-> 403, message |-> "Not a player in this game"]
    ELSE Ok

drawAnswer(game, userId) ==
    IF game.status # "active"
    THEN [code |-> 400, message |-> "Game is not active"]
    ELSE IF ~isPlayer(game, userId)
    THEN [code |-> 403, message |-> "Not a player in this game"]
    ELSE Ok

\* POST /api/games/:id/draw-offer
PostDrawOffer(gameId, userId) ==
    /\ LET game == getGame(DB, gameId)
           answer == drawAnswer(game, userId)
       IN  /\ RespondDrawOffer(gameId, userId, answer)
           /\ IF answer.code # 200
              THEN UNCHANGED <<games, gameMoves, users, drawOffers, statCalls, queue, requests>>
              ELSE Commit(addDrawOffer(DB, gameId, userId))
    /\ UNCHANGED <<accepted, reqs>>

\* The draw-response handler with "if (accept)" inverted.
drawResponseWritesInverted(d, gameId, game, accept) ==
    LET d1 == removeDrawOffers(d, gameId)
    IN  IF ~accept
        THEN creditStats(
               creditStats(
                 updateGame(d1, gameId, [status |-> "completed", result |-> "draw"]),
                 gameId, game.whitePlayerId, "draw"),
               gameId, game.blackPlayerId, "draw")
        ELSE d1

drawResponseWrites(d, gameId, game, accept) ==
    LET d1 == removeDrawOffers(d, gameId)
    IN  IF accept
        THEN creditStats(
               creditStats(
                 updateGame(d1, gameId, [status |-> "completed", result |-> "draw"]),
                 gameId, game.whitePlayerId, "draw"),
               gameId, game.blackPlayerId, "draw")
        ELSE d1

\* POST /api/games/:id/draw-response
PostDrawResponse(gameId, userId, accept) ==
    /\ CanRate
    /\ LET game == getGame(DB, gameId)
           answer == drawAnswer(game, userId)
       IN  /\ RespondDrawResponse(gameId, userId, accept, answer)
           /\ IF answer.code # 200
              THEN UNCHANGED <<games, gameMoves, users, drawOffers, statCalls, queue, requests>>
              ELSE Commit(drawResponseWrites(DB, gameId, game, accept))
    /\ UNCHANGED <<accepted, reqs>>

Next ==
    \/ \E b \in {NoPlayer, "u2"}, tc \in TimeControls : PostGame("u1", b, tc)
    \/ \E df \in Difficulties, c \in {"white", "black"}, tc \in TimeControls :
         PostBotGame("u1", df, c, tc)
    \/ \E g \in GameIds, u \in Humans, tr \in DeclaredClocks :
         \E san \in SubmittedMoves(games[g].fen) : PostMove(g, u, san, tr)
    \/ \E g \in GameIds, u \in Humans : PostResign(g, u)
    \/ \E g \in GameIds, u \in Humans : PostDrawOffer(g, u)
    \/ \E g \in GameIds, u \in Humans, a \in BOOLEAN : PostDrawResponse(g, u, a)

Spec == Init /\ [][Next]_vars

----------------------------------------------------------------------------
(* The move and resign handlers split at their awaits.  A handler runs     *)
(* from one awaited storage call to the next without interruption; other   *)
(* requests run in between.                                                *)

Idle(slot) == reqs[slot].op = "idle"
FreeSlot(slot) == Idle(slot) /\ \A t \in ReqSlots : t < slot => ~Idle(t)

\* moves handler up to "await storage.addGameMove": the game is read and
\* the move validated against it.
BeginMove(slot, gameId, userId, san, timeRemaining) ==
    /\ FreeSlot(slot)
    /\ CanRate
    /\ MovesLeft(gameId)
    /\ LET game == getGame(DB, gameId)
       IN  \E answer \in moveAnswers(game, userId, san) :
             IF answer.code # 200
             THEN /\ RespondMove(gameId, userId, san, timeRemaining, answer)
                  /\ UNCHANGED reqs
             ELSE /\ reqs' = [reqs EXCEPT ![slot] =
                       [op |-> "move", stage |-> "addGameMove", gameId |-> gameId,
                        userId |-> userId, san |-> san,
                        timeRemaining |-> timeRemaining, game |-> game]]
                  /\ UNCHANGED response
    /\ UNCHANGED <<games, gameMoves, users, drawOffers, statCalls, queue, requests, accepted>>

\* "await storage.addGameMove(...)"
StepAddGameMove(slot) ==
    /\ reqs[slot].op = "move" /\ reqs[slot].stage = "addGameMove"
    /\ LET r == reqs[slot]
       IN  Commit(addGameMove(DB, moveRecord(r.gameId, r.game, r.san,
                                             r.timeRemaining)))
    /\ reqs' = [reqs EXCEPT ![slot].stage = "updateGame"]
    /\ UNCHANGED <<accepted, response>>

\* "await storage.updateGame(...)" and the rest of the moves handler.
StepUpdateGame(slot) ==
    /\ reqs[slot].op = "move" /\ reqs[slot].stage = "updateGame"
    /\ LET r == reqs[slot]
       IN  /\ FinishMove(moveUpdateAndStats(DB, r.gameId, r.game, r.userId, r.san,
                                            r.timeRemaining), r.gameId)
           /\ RespondMove(r.gameId, r.userId, r.san, r.timeRemaining, Ok)
    /\ reqs' = [reqs EXCEPT ![slot] = NoReq]

\* resign handler up to "await storage.updateGame".
BeginResign(slot, gameId, userId) ==
    /\ FreeSlot(slot)
    /\ CanRate
    /\ LET game == getGame(DB, gameId)
           answer == resignAnswer(game, userId)
       IN  IF answer.code # 200
           THEN /\ Respond("resign", gameId, userId, answer)
                /\ UNCHANGED reqs
           ELSE /\ reqs' = [reqs EXCEPT ![slot] =
                     [op |-> "resign", stage |-> "updateGame", gameId |-> gameId,
                      userId |-> userId, game |-> game]]
                /\ UNCHANGED response
    /\ UNCHANGED <<games, gameMoves, users, drawOffers, statCalls, queue, requests, accepted>>

\* "await storage.updateGame(...)" and the rest of the resign handler.
StepResign(slot) ==
    /\ reqs[slot].op = "resign"
    /\ LET r == reqs[slot]
       IN  /\ Commit(resignWrites(DB, r.gameId, r.game, r.userId))
           /\ Respond("resign", r.gameId, r.userId, Ok)
    /\ reqs' = [reqs EXCEPT ![slot] = NoReq]
    /\ UNCHANGED accepted

\* The interleaved runs take their inputs from the two participants of a
\* human game or the human of a game against the hard bot, one declared clock.
ConcClocks == {595}

NextConc ==
    \/ PostGame("u1", "u2", DefaultTimeControl)
    \/ PostBotGame("u1", "hard", "white", DefaultTimeControl)
    \/ \E s \in ReqSlots, g \in GameIds, u \in {"u1", "u2"} :
         \E san \in SubmittedMoves(games[g].fen), tr \in ConcClocks :
            BeginMove(s, g, u, san, tr)
    \/ \E s \in ReqSlots : StepAddGameMove(s)
    \/ \E s \in ReqSlots : StepUpdateGame(s)
    \/ \E s \in ReqSlots, g \in GameIds, u \in {"u1", "u2"} : BeginResign(s, g, u)
    \/ \E s \in ReqSlots : StepResign(s)

SpecConc == Init /\ [][NextConc]_vars

----------------------------------------------------------------------------
(* Matchmaking (server/routes.ts), each request run to completion *)

MatchTimeControls == {300, DefaultTimeControl}

\* The answer to a matchmaking request: matched with the new game, or queued.
RespondMatch(userId, timeControl, matched, gameId) ==
    response' = [op |-> "matchmaking", gameId |-> gameId, userId |-> userId,
                 code |-> 200, message |-> "ok", timeControl |-> timeControl,
                 matched |-> matched]

\* The writes of a request that found opponent: the game, then both players'
\* entries removed.
matchWrites(d, userId, opponent, timeControl, isCurrentPlayerWhite) ==
    removeFromMatchmaking(
      removeFromMatchmaking(
        createGame(d,
          [whitePlayerId |-> IF isCurrentPlayerWhite THEN userId
                             ELSE opponent.playerId,
           blackPlayerId |-> IF isCurrentPlayerWhite THEN opponent.playerId
                             ELSE userId,
           result |-> NoResult, timeControl |-> timeControl,
           whiteTimeRemaining |-> timeControl,
           blackTimeRemaining |-> timeControl]),
        userId),
      opponent.playerId)

\* The request is counted when it arrives.
countRequest(d, userId) == [d EXCEPT !.requests[userId] = @ + 1]

\* POST /api/matchmaking
PostMatchmaking(userId, timeControl, ratingRange, isCurrentPlayerWhite) ==
    /\ requests[userId] < MaxRequests
    /\ LET opponent == findMatchmakingOpponent(DB, userId, timeControl, ratingRange)
           d1 == countRequest(DB, userId)
       IN  IF opponent.playerId # NoPlayer
           THEN /\ Len(games) < MaxMatches
                /\ Commit(matchWrites(d1, userId, opponent, timeControl,
                                      isCurrentPlayerWhite))
                /\ RespondMatch(userId, timeControl, TRUE, Len(games) + 1)
           ELSE /\ Len(queue) < MaxQueue
                /\ Commit(addToMatchmaking(d1,
                      [playerId |-> userId, timeControl |-> timeControl,
                       ratingRange |-> ratingRange]))
                /\ RespondMatch(userId, timeControl, FALSE, 0)
    /\ UNCHANGED <<accepted, reqs>>

\* The answer to a cancellation, with the number of entries the player had
\* when it arrived.
RespondCancel(userId) ==
    response' = [op |-> "cancelMatch", gameId |-> 0, userId |-> userId,
                 code |-> 200, message |-> "ok",
                 had |-> Cardinality({i \in DOMAIN queue :
                                        queue[i].playerId = userId})]

\* DELETE /api/matchmaking
DeleteMatchmaking(userId) ==
    /\ Commit(removeFromMatchmaking(DB, userId))
    /\ RespondCancel(userId)
    /\ UNCHANGED <<accepted, reqs>>

NextMatch ==
    \/ \E u \in Humans, tc \in MatchTimeControls, w \in BOOLEAN :
         PostMatchmaking(u, tc, DefaultRatingRange, w)
    \/ \E u \in Humans : DeleteMatchmaking(u)

SpecMatch == Init /\ [][NextMatch]_vars

----------------------------------------------------------------------------
(* Session creation with the fields of insertGameSchema a caller may put   *)
(* in the body of POST /api/games.  A field the caller left out is Absent  *)
(* (0 for a number).                                                       *)

Absent == "absent"

\* The fields createGame overrides, left out or supplied.
SuppliedOverridden ==
    {[status |-> Absent, currentTurn |-> Absent, moveCount |-> 0, fen |-> Absent],
     [status |-> "completed", currentTurn |-> "black", moveCount |-> 5,
      fen |-> "MW"]}

GameBodies ==
    {[blackPlayerId |-> b, result |-> r, timeControl |-> tc] @@ o :
        b \in {NoPlayer, "u2"}, r \in {NoResult, "white_wins"},
        tc \in {0, 300}, o \in SuppliedOverridden}

\* "{...gameData, whitePlayerId: userId, whiteTimeRemaining: gameData.timeControl
\* || 600, blackTimeRemaining: gameData.timeControl || 600}"; a document
\* without timeControl gets the schema's default.
gameFromBody(userId, gameData) ==
    [whitePlayerId |-> userId,
     blackPlayerId |-> gameData.blackPlayerId,
     status |-> gameData.status,
     result |-> gameData.result,
     timeControl |-> IF gameData.timeControl = 0 THEN DefaultTimeControl
                     ELSE gameData.timeControl,
     whiteTimeRemaining |-> IF gameData.timeControl = 0 THEN DefaultTimeControl
                            ELSE gameData.timeControl,
     blackTimeRemaining |-> IF gameData.timeControl = 0 THEN DefaultTimeControl
                            ELSE gameData.timeControl,
     currentTurn |-> gameData.currentTurn,
     moveCount |-> gameData.moveCount,
     fen |-> gameData.fen]

\* The answer to a creation, with the body that was posted.
RespondCreate(userId, gameData, gameId) ==
    response' = [op |-> "create", gameId |-> gameId, userId |-> userId,
                 code |-> 200, message |-> "ok", body |-> gameData]

\* POST /api/games with any body insertGameSchema accepts
PostGameBody(userId, gameData) ==
    /\ Len(games) < MaxMatches
    /\ Commit(createGame(DB, gameFromBody(userId, gameData)))
    /\ RespondCreate(userId, gameData, Len(games) + 1)
    /\ UNCHANGED <<accepted, reqs>>

NextCreate ==
    \/ \E u \in Humans, gameData \in GameBodies : PostGameBody(u, gameData)
    \/ \E u \in Humans, tc \in MatchTimeControls, w \in BOOLEAN :
         PostMatchmaking(u, tc, DefaultRatingRange, w)

SpecCreate == Init /\ [][NextCreate]_vars

----------------------------------------------------------------------------
(* The rating updater on its own: updateUserStats called with any outcome  *)
(* for a registered player or for an id that has no user record.           *)

Outcomes == {"win", "loss", "draw"}

RatedIds == {"u1", BotId("easy")}

RespondRate(userId, result) ==
    response' = [op |-> "rate", gameId |-> 0, userId |-> userId,
                 code |-> 200, message |-> "ok", result |-> result]

RateUser(userId, result) ==
    /\ hasUser(DB, userId) => users[userId].gamesPlayed < MaxRatedGames
    /\ Commit(updateUserStats(DB, userId, result))
    /\ RespondRate(userId, result)
    /\ UNCHANGED <<accepted, reqs>>

NextRating == \E u \in RatedIds, result \in Outcomes : RateUser(u, result)

SpecRating == Init /\ [][NextRating]_vars

----------------------------------------------------------------------------
(* A ChessBot instance on its own.  The constructor stores the difficulty; *)
(* getBestMove loads the position it is given into the instance's board    *)
(* before it reads it, so the board carries nothing from call to call, and *)
(* returns a move or throws.  Each request in flight has its own instance. *)

NoLegalMoves == "No legal moves available"

\* "constructor(difficulty) { this.difficulty = difficulty; this.chess = new Chess(); }"
NewChessBot(slot, difficulty) ==
    /\ reqs' = [reqs EXCEPT ![slot] =
                  [op |-> "bot", difficulty |-> difficulty]]
    /\ response' = [op |-> "newBot", gameId |-> 0, userId |-> BotId(difficulty),
                    code |-> 200, message |-> "ok"]
    /\ UNCHANGED <<games, gameMoves, users, drawOffers, statCalls, accepted,
                   queue, requests>>

\* What the caller of getBestMove gets: the move, or the error thrown.
RespondBot(fen, difficulty, threw, data) ==
    response' = [op |-> "bot", gameId |-> 0, userId |-> BotId(difficulty),
                 code |-> IF threw THEN 500 ELSE 200,
                 message |-> IF threw THEN NoLegalMoves ELSE "ok",
                 fen |-> fen, difficulty |-> difficulty, threw |-> threw,
                 move |-> data.move, evaluation |-> data.evaluation,
                 noise |-> data.noise]

\* The BotMove records getBestMove can return, move and evaluation.
getBestMoveData(fen, difficulty) ==
    CASE difficulty = "medium" ->
           {data \in getMediumMoveData(fen) :
              data.move \in getBestMove(fen, difficulty)}
      [] difficulty = "hard" ->
           {[move |-> move, evaluation |-> hardEvaluation(fen), noise |-> <<>>] :
              move \in getBestMove(fen, difficulty)}
      [] OTHER ->
           {[move |-> move, evaluation |-> NoEvaluation, noise |-> <<>>] :
              move \in getBestMove(fen, difficulty)}

\* getBestMove over every position and difficulty, computed once.
bestMoves ==
    [fen \in Positions, difficulty \in Difficulties |->
       IF getBestMove(fen, difficulty) = {} THEN {}
       ELSE getBestMoveData(fen, difficulty)]

\* bot.getBestMove(fen)
GetBestMove(slot, fen) ==
    /\ reqs[slot].op = "bot"
    /\ LET difficulty == reqs[slot].difficulty
           returned == bestMoves[fen, difficulty]
       IN  \/ /\ returned = {}
              /\ RespondBot(fen, difficulty, TRUE,
                    [move |-> "", evaluation |-> NoEvaluation, noise |-> <<>>])
           \/ \E data \in returned : RespondBot(fen, difficulty, FALSE, data)
    /\ UNCHANGED <<games, gameMoves, users, drawOffers, statCalls, accepted,
                   queue, requests, reqs>>

NextBot ==
    \/ \E slot \in ReqSlots, difficulty \in Difficulties :
         NewChessBot(slot, difficulty)
    \/ \E slot \in ReqSlots, fen \in Positions : GetBestMove(slot, fen)

SpecBot == Init /\ [][NextBot]_vars

----------------------------------------------------------------------------
(* Storage calls that throw.  The handlers wrap their body in one try and  *)
(* answer 500 from the catch; the writes made before the failing call stay.*)

MoveCalls == {"addGameMove", "updateGame"}
MatchCalls == {"createGame", "removeFromMatchmaking"}

\* POST /api/games/:id/moves when the storage call failedCall throws
PostMoveFails(gameId, userId, san, timeRemaining, failedCall) ==
    /\ MovesLeft(gameId)
    /\ LET game == getGame(DB, gameId)
       IN  /\ moveAnswers(game, userId, san) = {Ok}
           /\ IF failedCall = "addGameMove" THEN Commit(DB)
              ELSE Commit(addGameMove(DB, moveRecord(gameId, game, san,
                                                     timeRemaining)))
    /\ RespondMove(gameId, userId, san, timeRemaining,
                   [code |-> 500, message |-> "Failed to make move"])
    /\ UNCHANGED <<accepted, reqs>>

\* POST /api/matchmaking when an opponent is found and failedCall throws
PostMatchmakingFails(userId, timeControl, ratingRange, isCurrentPlayerWhite, failedCall) ==
    /\ requests[userId] < MaxRequests
    /\ Len(games) < MaxMatches
    /\ LET opponent == findMatchmakingOpponent(DB, userId, timeControl, ratingRange)
           d1 == countRequest(DB, userId)
       IN  /\ opponent.playerId # NoPlayer
           /\ IF failedCall = "createGame" THEN Commit(d1)
              ELSE Commit(createGame(d1,
                     [whitePlayerId |-> IF isCurrentPlayerWhite THEN userId
                                        ELSE opponent.playerId,
                      blackPlayerId |-> IF isCurrentPlayerWhite
                                        THEN opponent.playerId ELSE userId,
                      result |-> NoResult, timeControl |-> timeControl,
                      whiteTimeRemaining |-> timeControl,
                      blackTimeRemaining |-> timeControl]))
    /\ response' = [op |-> "matchmaking", gameId |-> 0, userId |-> userId,
                    code |-> 500, message |-> "Failed to process matchmaking",
                    timeControl |-> timeControl, matched |-> FALSE]
    /\ UNCHANGED <<accepted, reqs>>

FailPlayers == {"u1", "u2"}

NextFail ==
    \/ PostGame("u1", "u2", DefaultTimeControl)
    \/ \E g \in GameIds \cap GameSlots, u \in FailPlayers :
         \E san \in SubmittedMoves(games[g].fen), tr \in ConcClocks :
            PostMove(g, u, san, tr)
    \/ \E g \in GameIds \cap GameSlots, u \in FailPlayers, call \in MoveCalls :
         \E san \in SubmittedMoves(games[g].fen), tr \in ConcClocks :
            PostMoveFails(g, u, san, tr, call)
    \/ \E u \in FailPlayers, w \in BOOLEAN :
         PostMatchmaking(u, DefaultTimeControl, DefaultRatingRange, w)
    \/ \E u \in FailPlayers, w \in BOOLEAN, call \in MatchCalls :
         PostMatchmakingFails(u, DefaultTimeControl, DefaultRatingRange, w, call)

SpecFail == Init /\ [][NextFail]_vars

----------------------------------------------------------------------------
(* The search on its own: minimax called with the full window on any       *)
(* position, to any depth up to MaxDepth, for either side.                 *)

Depths == 0..MaxDepth

\* this.minimax(depth, -Infinity, Infinity, isMaximizing) on the position fen
Minimax(fen, depth, isMaximizing) ==
    /\ response' = [op |-> "minimax", gameId |-> 0, userId |-> NoPlayer,
                    code |-> 200, message |-> "ok", fen |-> fen,
                    depth |-> depth, isMaximizing |-> isMaximizing,
                    value |-> minimax(fen, depth, -Infinity, Infinity,
                                      isMaximizing)]
    /\ UNCHANGED <<games, gameMoves, users, drawOffers, statCalls, accepted,
                   queue, requests, reqs>>

NextSearch ==
    \E fen \in Positions, depth \in Depths, isMaximizing \in BOOLEAN :
       Minimax(fen, depth, isMaximizing)

SpecSearch == Init /\ [][NextSearch]_vars

----------------------------------------------------------------------------
(* updateUserStats split at its awaits: "await this.getUser(userId)", then *)
(* "await UserModel.updateOne(...)" with the fields computed from the user *)
(* that was read.  Calls made for sessions that end at the same time run   *)
(* in between.                                                             *)

ConcRated == {"u1", "u2"}

\* The calls begun for a player and not yet written.
ratesInFlight(userId) ==
    Cardinality({s \in ReqSlots : reqs[s].op = "rate" /\ reqs[s].userId = userId})

\* updateUserStats up to the end of its read
BeginRate(slot, userId, result) ==
    /\ FreeSlot(slot)
    /\ hasUser(DB, userId)
    /\ users[userId].wins + users[userId].losses + users[userId].draws
         + ratesInFlight(userId) < MaxGamesPlayed
    /\ reqs' = [reqs EXCEPT ![slot] =
                  [op |-> "rate", userId |-> userId, result |-> result,
                   user |-> users[userId]]]
    /\ UNCHANGED <<games, gameMoves, users, drawOffers, statCalls, accepted,
                   queue, requests, response>>

\* "await UserModel.updateOne({ id: userId }, updates).exec()"
StepRate(slot) ==
    /\ reqs[slot].op = "rate"
    /\ LET r == reqs[slot]
       IN  /\ Commit([DB EXCEPT !.users[r.userId] =
                        userStatsUpdates(r.user, r.result) @@ @])
           /\ RespondRate(r.userId, r.result)
    /\ reqs' = [reqs EXCEPT ![slot] = NoReq]
    /\ UNCHANGED accepted

NextRatingConc ==
    \/ \E s \in ReqSlots, u \in ConcRated, result \in Outcomes :
         BeginRate(s, u, result)
    \/ \E s \in ReqSlots : StepRate(s)

SpecRatingConc == Init /\ [][NextRatingConc]_vars

----------------------------------------------------------------------------
(* The matchmaking handler split at its awaits: the opponent query, then   *)
(* either createGame and the two removals, or the insertion.               *)

\* The requests in flight that have still to make the storage call of stage.
InFlight(stage) ==
    Cardinality({s \in DOMAIN reqs : reqs[s].op = "match" /\ reqs[s].stage = stage})

\* Handler up to the answer of "await storage.findMatchmakingOpponent".
BeginMatch(slot, userId, timeControl, ratingRange) ==
    /\ FreeSlot(slot)
    /\ requests[userId] < MaxRequests
    /\ LET opponent == findMatchmakingOpponent(DB, userId, timeControl, ratingRange)
       IN  /\ IF opponent.playerId # NoPlayer
              THEN Len(games) + InFlight("createGame") < MaxMatches
              ELSE Len(queue) + InFlight("addToMatchmaking") < MaxQueue
           /\ reqs' = [reqs EXCEPT ![slot] =
                 [op |-> "match",
                  stage |-> IF opponent.playerId # NoPlayer THEN "createGame"
                            ELSE "addToMatchmaking",
                  userId |-> userId, timeControl |-> timeControl,
                  ratingRange |-> ratingRange, opponent |-> opponent,
                  gameId |-> 0]]
    /\ Commit(countRequest(DB, userId))
    /\ UNCHANGED <<accepted, response>>

\* "await storage.createGame(...)"
StepCreateGame(slot, isCurrentPlayerWhite) ==
    /\ reqs[slot].op = "match" /\ reqs[slot].stage = "createGame"
    /\ LET r == reqs[slot]
       IN  Commit(createGame(DB,
             [whitePlayerId |-> IF isCurrentPlayerWhite THEN r.userId
                                ELSE r.opponent.playerId,
              blackPlayerId |-> IF isCurrentPlayerWhite THEN r.opponent.playerId
                                ELSE r.userId,
              result |-> NoResult, timeControl |-> r.timeControl,
              whiteTimeRemaining |-> r.timeControl,
              blackTimeRemaining |-> r.timeControl]))
    /\ reqs' = [reqs EXCEPT ![slot].stage = "removeSelf",
                            ![slot].gameId = Len(games) + 1]
    /\ UNCHANGED <<accepted, response>>

\* "await storage.removeFromMatchmaking(userId)"
StepRemoveSelf(slot) ==
    /\ reqs[slot].op = "match" /\ reqs[slot].stage = "removeSelf"
    /\ Commit(removeFromMatchmaking(DB, reqs[slot].userId))
    /\ reqs' = [reqs EXCEPT ![slot].stage = "removeOpponent"]
    /\ UNCHANGED <<accepted, response>>

\* "await storage.removeFromMatchmaking(opponent.playerId)" and the answer.
StepRemoveOpponent(slot) ==
    /\ reqs[slot].op = "match" /\ reqs[slot].stage = "removeOpponent"
    /\ LET r == reqs[slot]
       IN  /\ Commit(removeFromMatchmaking(DB, r.opponent.playerId))
           /\ RespondMatch(r.userId, r.timeControl, TRUE, r.gameId)
    /\ reqs' = [reqs EXCEPT ![slot] = NoReq]
    /\ UNCHANGED accepted

\* "await storage.addToMatchmaking(entryData)" and the answer.
StepAddToMatchmaking(slot) ==
    /\ reqs[slot].op = "match" /\ reqs[slot].stage = "addToMatchmaking"
    /\ LET r == reqs[slot]
       IN  /\ Commit(addToMatchmaking(DB,
                 [playerId |-> r.userId, timeControl |-> r.timeControl,
                  ratingRange |-> r.ratingRange]))
           /\ RespondMatch(r.userId, r.timeControl, FALSE, 0)
    /\ reqs' = [reqs EXCEPT ![slot] = NoReq]
    /\ UNCHANGED accepted

\* The interleaved runs take their requests from these: every identity asks
\* for the default time control, one of them for the other control as well.
ConcMatchRequests ==
    {<<u, DefaultTimeControl>> : u \in Humans} \cup {<<"u2", 300>>}

NextMatchConc ==
    \/ \E s \in ReqSlots, rq \in ConcMatchRequests :
         BeginMatch(s, rq[1], rq[2], DefaultRatingRange)
    \/ \E s \in ReqSlots, w \in BOOLEAN : StepCreateGame(s, w)
    \/ \E s \in ReqSlots : StepRemoveSelf(s)
    \/ \E s \in ReqSlots : StepRemoveOpponent(s)
    \/ \E s \in ReqSlots : StepAddToMatchmaking(s)
    \/ \E u \in Humans : DeleteMatchmaking(u)

SpecMatchConc == Init /\ [][NextMatchConc]_vars

----------------------------------------------------------------------------
(* Properties *)

WinFor(turn) == IF turn = "white" THEN "white_wins" ELSE "black_wins"

Quiescent == \A s \in ReqSlots : Idle(s)

MoveNumbers(gameId) ==
    LET ms == getGameMoves(DB, gameId) IN [i \in DOMAIN ms |-> ms[i].moveNumber]

\* A step that is the command op on game g, answered 200.
AcceptedStep(op, g) ==
    response'.op = op /\ response'.gameId = g /\ response'.code = 200

\* The outcome of player for a game with the given result.
outcomeFor(game, playerId, result) ==
    IF result = "draw" THEN "draw"
    ELSE IF (result = "white_wins") <=> (game.whitePlayerId = playerId) THEN "win"
    ELSE "loss"

\* C1: a legal move by the side to move of an active session that delivers
\* checkmate (the human's move, or the bot's reply to it) completes the
\* session with a win for the colour that made the mating move.
C1_CheckmateCreditsMover ==
    [][\A g \in GameIds :
        (/\ AcceptedStep("move", g)
         /\ games[g].status = "active"
         /\ isCheckmate(games'[g].fen))
        => /\ games'[g].status = "completed"
           /\ games'[g].result =
                WinFor(IF games'[g].moveCount = games[g].moveCount + 1
                       THEN games[g].currentTurn
                       ELSE otherTurn(games[g].currentTurn))]_vars

\* C2: in every reachable state a session is completed exactly when its
\* result is set.
C2_CompletedIffResult ==
    \A g \in GameIds : games[g].status = "completed" <=> games[g].result # NoResult

\* C3: a move submitted to a completed session is answered "Game is not
\* active" and changes nothing of the session, its move records or the
\* rating records.
C3_MoveOnCompletedRejected ==
    [][\A g \in GameIds :
        (response'.op = "move" /\ response'.gameId = g
           /\ games[g].status = "completed")
        => /\ response'.code # 200
           /\ response'.message = "Game is not active"
           /\ UNCHANGED <<games, gameMoves, users>>]_vars

\* C4: whenever a session goes from active to completed, the rating record of
\* each human participant is updated with the participant's outcome relative
\* to the session's result.
C4_CompletionUpdatesRatings ==
    [][\A g \in GameIds :
        (games[g].status = "active" /\ games'[g].status = "completed")
        => \A p \in Humans :
             isPlayer(games[g], p)
             => users'[p] = userStatsUpdates(users[p],
                               outcomeFor(games[g], p, games'[g].result)) @@ users[p]
       ]_vars

\* C5: a participant's rating record is updated at most once for a session.
C5_RatedAtMostOnce ==
    \A g \in GameIds, p \in Humans : statCalls[<<g, p>>] <= 1

\* C6: a participant's resignation of a session that is not active is
\* answered "Game is not active" and leaves status and result unchanged; a
\* resignation by a non-participant is answered "Not a player in this game"
\* and leaves the session unchanged.
C6_ResignRejections ==
    [][\A g \in GameIds, u \in Humans :
        (response'.op = "resign" /\ response'.gameId = g /\ response'.userId = u)
        => /\ (isPlayer(games[g], u) /\ games[g].status # "active")
                => /\ response'.code # 200
                   /\ response'.message = "Game is not active"
                   /\ games'[g].status = games[g].status
                   /\ games'[g].result = games[g].result
           /\ ~isPlayer(games[g], u)
                => /\ response'.code = 403
                   /\ response'.message = "Not a player in this game"
                   /\ UNCHANGED <<games, gameMoves, users>>]_vars

\* C7: a participant's resignation of an active session completes it with a
\* win for the opponent's colour, whoever is to move, and leaves position,
\* turn, moveCount and both clocks as they were.
C7_ResignCompletesForOpponent ==
    [][\A g \in GameIds, u \in Humans :
        (/\ response'.op = "resign" /\ response'.gameId = g /\ response'.userId = u
         /\ isPlayer(games[g], u)
         /\ games[g].status = "active")
        => /\ response'.code = 200
           /\ games'[g].status = "completed"
           /\ games'[g].result = (IF isWhitePlayer(games[g], u) THEN "black_wins"
                                  ELSE "white_wins")
           /\ games'[g].fen = games[g].fen
           /\ games'[g].currentTurn = games[g].currentTurn
           /\ games'[g].moveCount = games[g].moveCount
           /\ games'[g].whiteTimeRemaining = games[g].whiteTimeRemaining
           /\ games'[g].blackTimeRemaining = games[g].blackTimeRemaining]_vars

\* A black participant has resigned, with White to move, a session that no
\* move and no earlier command had completed.
C7_Witness ==
    \E g \in GameIds :
        /\ response.op = "resign" /\ response.gameId = g /\ response.code = 200
        /\ isBlackPlayer(games[g], response.userId)
        /\ games[g].currentTurn = "white"
        /\ games[g].moveCount > 0
        /\ ~isGameOver(games[g].fen)
        /\ statCalls[<<g, response.userId>>] = 1
        /\ games[g].status = "completed"
        /\ games[g].result = "white_wins"

\* C8: submissions that read the same pre-move state exclude one another: no
\* two move records of a session carry the same sequence number, and
\* moveCount is never below the number of accepted moves.
C8_MoveSubmissionsExclusive ==
    \A g \in GameIds :
        /\ \A i, j \in DOMAIN MoveNumbers(g) :
             MoveNumbers(g)[i] = MoveNumbers(g)[j] => i = j
        /\ accepted[g] <= games[g].moveCount

\* C9: whenever no request is in progress, the move records of a session
\* carry the sequence numbers 1..moveCount in order, each once.
C9_SequenceNumbers ==
    Quiescent =>
      \A g \in GameIds :
          MoveNumbers(g) = [i \in 1..games[g].moveCount |-> i]

\* C10: turn flips with every accepted move and moveCount counts the accepted
\* moves: whenever no request is in progress, moveCount is the number of
\* accepted moves (human and bot) and the turn is White exactly when that
\* number is even.
C10_TurnAndCount ==
    Quiescent =>
      \A g \in GameIds :
          /\ games[g].moveCount = accepted[g]
          /\ games[g].currentTurn = (IF accepted[g] % 2 = 0 THEN "white"
                                     ELSE "black")

\* The rest of C10: a step that accepts no move changes neither turn nor
\* moveCount.
C10_OtherCommandsKeepTurn ==
    [][\A g \in GameIds :
        accepted'[g] = accepted[g]
        => /\ games'[g].moveCount = games[g].moveCount
           /\ games'[g].currentTurn = games[g].currentTurn]_vars

\* A step in which the command op on game g is answered: the handler ends,
\* at once or at the last of its awaits.
Answered(op, g) ==
    /\ response'.op = op /\ response'.gameId = g
    /\ \/ UNCHANGED reqs
       \/ \E s \in ReqSlots :
            reqs[s].op = op /\ reqs[s].gameId = g /\ reqs'[s] = NoReq

HumanGame(game) ==
    ~startsWithBot(game.whitePlayerId) /\ ~startsWithBot(game.blackPlayerId)

C12_ClocksNeverIncrease ==
    [][\A g \in GameIds :
        /\ games'[g].whiteTimeRemaining <= games[g].whiteTimeRemaining
        /\ games'[g].blackTimeRemaining <= games[g].blackTimeRemaining
        /\ games'[g].whiteTimeRemaining >= 0
        /\ games'[g].blackTimeRemaining >= 0]_vars

\* C13: a move the rules engine rejects in the session's position is never
\* accepted and changes neither the session nor the move records nor the
\* rating records; submitted to an active session by the side to move it is
\* answered as an invalid move.
C13_IllegalMoveRejected ==
    [][\A g \in GameIds :
        (Answered("move", g) /\ ~chessLegal(games[g].fen, response'.san))
        => /\ response'.code # 200
           /\ UNCHANGED <<games, gameMoves, users, drawOffers, statCalls, accepted>>
           /\ (games[g].status = "active"
                 /\ isPlayerTurn(games[g], response'.userId))
              => response'.message \in {"Invalid move", "Failed to make move"}]_vars

\* The side to move of an active session, some moves in, was refused a move
\* that is legal in the starting position but not in the session's.
C13_Witness ==
    \E g \in GameIds :
        /\ response.op = "move" /\ response.gameId = g
        /\ response.message = "Invalid move"
        /\ response.san = "e4"
        /\ games[g].status = "active"
        /\ games[g].moveCount = 2
        /\ Len(gameMoves) = 2
        /\ isPlayerTurn(games[g], response.userId)
        /\ ~chessLegal(games[g].fen, "e4")

\* C14: a move submitted by an identity that is neither the white nor the
\* black participant is answered "Not a player in this game" and changes
\* nothing, whatever the position, the turn, the status and the move.
C14_NonParticipantRejected ==
    [][\A g \in GameIds :
        (Answered("move", g) /\ ~isPlayer(games[g], response'.userId))
        => /\ response'.code = 403
           /\ response'.message = "Not a player in this game"
           /\ UNCHANGED <<games, gameMoves, users, drawOffers, statCalls,
                           accepted>>]_vars

\* A non-participant was refused a move that is legal in the position of a
\* completed session with Black to move.
C14_Witness ==
    \E g \in GameIds :
        /\ response.op = "move" /\ response.gameId = g /\ response.code = 403
        /\ ~isPlayer(games[g], response.userId)
        /\ chessLegal(games[g].fen, response.san)
        /\ games[g].status = "completed"
        /\ games[g].currentTurn = "black"

\* C15: a move submitted by the participant whose colour is not to move is
\* answered "Not your turn" and changes nothing; and in a session of two
\* humans no participant has two accepted moves in a row.
C15_NotYourTurn ==
    [][\A g \in GameIds :
        /\ (/\ Answered("move", g)
            /\ isPlayer(games[g], response'.userId)
            /\ ~isPlayerTurn(games[g], response'.userId))
           => /\ response'.code = 400
              /\ response'.message = "Not your turn"
              /\ UNCHANGED <<games, gameMoves, users, drawOffers, statCalls,
                              accepted>>
        /\ (/\ HumanGame(games[g])
            /\ response.op = "move" /\ response.gameId = g
            /\ response.code = 200
            /\ Answered("move", g) /\ accepted'[g] > accepted[g])
           => response'.userId # response.userId]_vars

\* C16: a draw response to an active session with no offer pending is
\* refused and leaves status and result as they were, also when it accepts.
C16_NoOfferRejected ==
    [][\A g \in GameIds :
        (/\ Answered("drawResponse", g)
         /\ games[g].status = "active"
         /\ drawOffers[g] = NoPlayer)
        => /\ response'.code # 200
           /\ games'[g].status = "active"
           /\ games'[g].result = games[g].result]_vars

\* C17: an accepting draw response by the identity that placed the pending
\* offer does not complete the session.
C17_OffererCannotAccept ==
    [][\A g \in GameIds :
        (/\ Answered("drawResponse", g)
         /\ games[g].status = "active"
         /\ drawOffers[g] # NoPlayer
         /\ response'.userId = drawOffers[g]
         /\ response'.accept)
        => ~(games'[g].status = "completed" /\ games'[g].result = "draw")]_vars

\* C18: with an offer pending on an active session, a participant's draw
\* response clears the offer; accepting completes the session with result
\* draw, declining leaves the session as it was (active, position, turn,
\* moveCount and clocks unchanged); and on every active session, so also
\* after a decline, a participant's draw offer is recorded.
C18_DrawResponse ==
    [][\A g \in GameIds :
        /\ (/\ Answered("drawResponse", g)
            /\ games[g].status = "active"
            /\ drawOffers[g] # NoPlayer
            /\ isPlayer(games[g], response'.userId))
           => /\ response'.code = 200
              /\ drawOffers'[g] = NoPlayer
              /\ gameMoves' = gameMoves
              /\ IF response'.accept
                 THEN games'[g] = [games[g] EXCEPT !.status = "completed",
                                                   !.result = "draw"]
                 ELSE games'[g] = games[g] /\ users' = users
        /\ (/\ Answered("drawOffer", g)
            /\ games[g].status = "active"
            /\ isPlayer(games[g], response'.userId))
           => /\ response'.code = 200
              /\ drawOffers'[g] = response'.userId]_vars

\* The participant who did not place the pending offer has accepted it: the
\* session is completed as a draw and no offer is pending.
C18_Witness ==
    \E g \in GameIds :
        /\ response.op = "drawResponse" /\ response.gameId = g
        /\ response.code = 200 /\ response.accept
        /\ isPlayer(games[g], response.pending)
        /\ isPlayer(games[g], response.userId)
        /\ response.pending # response.userId
        /\ games[g].status = "completed" /\ games[g].result = "draw"
        /\ games[g].moveCount > 0
        /\ drawOffers[g] = NoPlayer

\* C19: a draw offer to a session that is not active, or by an identity that
\* is not a participant, is refused and records nothing; otherwise the
\* pending offer becomes the offerer's and nothing else changes, so that
\* repeating the offer leaves the state as after the first one.
C19_OfferDraw ==
    [][\A g \in GameIds :
        Answered("drawOffer", g)
        => LET u == response'.userId
           IN  IF games[g].status # "active" \/ ~isPlayer(games[g], u)
               THEN /\ response'.code # 200
                    /\ UNCHANGED <<games, gameMoves, users, drawOffers,
                                    statCalls, accepted>>
               ELSE /\ response'.code = 200
                    /\ drawOffers'[g] = u
                    /\ UNCHANGED <<games, gameMoves, users, statCalls, accepted>>
                    /\ drawOffers[g] = u => drawOffers' = drawOffers]_vars

\* A participant has repeated the offer that was already pending as theirs.
C19_Witness ==
    \E g \in GameIds :
        /\ response.op = "drawOffer" /\ response.gameId = g
        /\ response.code = 200
        /\ response.pending = response.userId
        /\ drawOffers[g] = response.userId
        /\ games[g].status = "active"

Tickets(playerId) == {i \in DOMAIN queue : queue[i].playerId = playerId}

\* C20: in every reachable state of the matchmaking queue each identity has
\* at most one entry; a request by a player who is already waiting and finds
\* no opponent leaves that player with one entry, not two.
C20_OneTicketPerPlayer ==
    \A p \in Humans : Cardinality(Tickets(p)) <= 1

SessionsOf(playerId) == {g \in GameIds : isPlayer(games[g], playerId)}

\* C21: a waiting ticket is paired once: whatever requests arrive together,
\* no identity is in more sessions than it has made matchmaking requests.
C21_OnePairingPerTicket ==
    \A p \in Humans : Cardinality(SessionsOf(p)) <= requests[p]

\* C22: whenever no matchmaking request is in progress, the queue holds no
\* two tickets of distinct players with equal time control: such a pair has
\* been formed into a session and both tickets removed.
C22_CompatibleTicketsPaired ==
    Quiescent =>
      \A i, j \in DOMAIN queue :
          queue[i].timeControl = queue[j].timeControl
          => queue[i].playerId = queue[j].playerId

Compatible(playerId, timeControl) ==
    {i \in DOMAIN queue : /\ queue[i].playerId # playerId
                          /\ queue[i].timeControl = timeControl}

OthersOf(q, players) == SelectSeq(q, LAMBDA e : e.playerId \notin players)

\* C23: a matchmaking request finds an opponent exactly when the queue holds
\* a ticket of another player with the requested time control, and then it
\* is the oldest such ticket; the session it creates holds the requester and
\* that ticket's player.
C23_FindOpponent ==
    [][\A s \in ReqSlots :
        /\ (reqs[s] = NoReq /\ reqs'[s] # NoReq /\ reqs'[s].op = "match")
           => LET r == reqs'[s]
                  compatible == Compatible(r.userId, r.timeControl)
              IN  /\ (r.stage = "createGame") <=> (compatible # {})
                  /\ compatible # {}
                     => \E i \in compatible :
                          /\ \A j \in compatible : i <= j
                          /\ r.opponent = queue[i]
        /\ (reqs[s].op = "match" /\ reqs[s].stage = "createGame"
              /\ reqs'[s].stage = "removeSelf")
           => LET new == games'[Len(games) + 1]
              IN  /\ Len(games') = Len(games) + 1
                  /\ {new.whitePlayerId, new.blackPlayerId} =
                       {reqs[s].userId, reqs[s].opponent.playerId}
                  /\ new.timeControl = reqs[s].timeControl]_vars

\* A request has just found the older of two compatible tickets of distinct
\* players, passing over an older ticket with another time control.
C23_Witness ==
    \E s \in ReqSlots :
        /\ reqs[s].op = "match" /\ reqs[s].stage = "createGame"
        /\ Len(queue) = 3
        /\ queue[1].timeControl # reqs[s].timeControl
        /\ queue[2] = reqs[s].opponent
        /\ queue[3].timeControl = reqs[s].timeControl
        /\ queue[3].playerId \notin {reqs[s].userId, queue[2].playerId}

\* C24: a request answered with a pairing has created one session and
\* removed exactly the found ticket and the requester's own, when there was
\* one; afterwards neither paired player has a ticket, and the tickets of the
\* other players are as before.
C24_PairingRemovesTwoTickets ==
    [][(response'.op = "matchmaking" /\ response'.matched
          /\ requests' # requests)
        => LET u == response'.userId
               new == games'[Len(games')]
               pair == {new.whitePlayerId, new.blackPlayerId}
           IN  /\ Len(games') = Len(games) + 1
               /\ u \in pair
               /\ Len(queue) - Len(queue') =
                     1 + (IF Tickets(u) # {} THEN 1 ELSE 0)
               /\ \A i \in DOMAIN queue' : queue'[i].playerId \notin pair
               /\ OthersOf(queue', pair) = OthersOf(queue, pair)]_vars

\* C25: cancelling succeeds whether or not the player has a ticket, leaves
\* the player without a ticket and the other players' tickets, in their
\* order, as they were; without a ticket it changes nothing.
C25_CancelIdempotent ==
    [][response'.op = "cancelMatch"
        => LET u == response'.userId
           IN  /\ response'.code = 200
               /\ \A i \in DOMAIN queue' : queue'[i].playerId # u
               /\ queue' = OthersOf(queue, {u})
               /\ Tickets(u) = {} => queue' = queue
               /\ UNCHANGED <<games, gameMoves, users, requests>>]_vars

\* A player who was waiting has cancelled while another player keeps
\* waiting.
C25_Witness ==
    /\ response.op = "cancelMatch" /\ response.had > 0
    /\ queue # <<>>
    /\ \A i \in DOMAIN queue : queue[i].playerId # response.userId

\* C26: every session created from a request body or by a pairing starts
\* active with no result, White to move, no moves, the starting position and
\* both clocks at its time control, whatever the body supplied; a paired
\* session holds the requester and the found opponent, one per colour.
C26_SessionsStartFresh ==
    [][Len(games') = Len(games) + 1
        => LET new == games'[Len(games')]
           IN  /\ new.status = "active"
               /\ new.result = NoResult
               /\ new.currentTurn = "white"
               /\ new.moveCount = 0
               /\ new.fen = StartFen
               /\ new.whiteTimeRemaining = new.timeControl
               /\ new.blackTimeRemaining = new.timeControl
               /\ response'.op = "matchmaking"
                  => LET u == response'.userId
                         compatible == Compatible(u, response'.timeControl)
                     IN  \E i \in compatible :
                           /\ \A j \in compatible : i <= j
                           /\ {new.whitePlayerId, new.blackPlayerId} =
                                {u, queue[i].playerId}
                           /\ new.whitePlayerId # new.blackPlayerId
                           /\ new.timeControl = response'.timeControl]_vars

\* One more when the outcome is the counter's, the same otherwise.
Counted(before, result, counter) ==
    IF result = counter THEN before + 1 ELSE before

\* C27: the rating updater gives rating + 25 for a win, max(800, rating - 25)
\* for a loss and rating + 5 for a draw, adds one to the counter of that
\* outcome and to no other, and adds one to gamesPlayed.
C27_RatingUpdater ==
    [][response'.op = "rate" /\ response'.userId \in Humans
        => LET old == users[response'.userId]
               new == users'[response'.userId]
               result == response'.result
           IN  /\ result = "win" => new.rating = old.rating + 25
               /\ result = "loss" =>
                    new.rating = IF old.rating - 25 < 800 THEN 800
                                 ELSE old.rating - 25
               /\ result = "draw" => new.rating = old.rating + 5
               /\ new.wins = Counted(old.wins, result, "win")
               /\ new.losses = Counted(old.losses, result, "loss")
               /\ new.draws = Counted(old.draws, result, "draw")
               /\ new.gamesPlayed = old.gamesPlayed + 1]_vars

\* A loss from 805, which the floor cuts short: one draw and seventeen
\* losses, the last of them just counted.
C27_Witness ==
    /\ response.op = "rate" /\ response.userId = "u1"
    /\ response.result = "loss"
    /\ users["u1"].rating = 800
    /\ users["u1"].wins = 0 /\ users["u1"].draws = 1
    /\ users["u1"].losses = 17

\* C28: from the default rating 1200 no rating ever falls below 800, a win
\* never lowers a rating and a loss never raises one.
C28_RatingFloor ==
    /\ [](\A u \in Humans : users[u].rating >= 800)
    /\ [][response'.op = "rate" /\ response'.userId \in Humans
           => LET old == users[response'.userId]
                  new == users'[response'.userId]
              IN  /\ response'.result = "win" => new.rating >= old.rating
                  /\ response'.result = "loss" => new.rating <= old.rating]_vars

\* Eighteen losses in a row: the floor holds at the seventeenth.
C28_Witness ==
    /\ users["u1"].losses = 18 /\ users["u1"].gamesPlayed = 18
    /\ users["u1"].rating = 800

\* C29: when a session with a bot completes (by a move, a resignation or an
\* accepted draw) no rating record exists for the bot, before or after, and
\* the record of the human participant is updated.
C29_BotsNotRated ==
    [][\A g \in GameIds :
        (~HumanGame(games[g])
           /\ games[g].status = "active" /\ games'[g].status = "completed")
        => /\ \A b \in Bots : ~hasUser(DB, b) /\ b \notin DOMAIN users'
           /\ \A p \in Humans :
                isPlayer(games[g], p)
                => /\ users'[p] # users[p]
                   /\ users'[p].gamesPlayed = users[p].gamesPlayed + 1]_vars

\* C30: at every difficulty, in a position with a legal move the bot returns
\* one of the position's legal moves; in a position with none it fails with
\* "No legal moves available".
C30_BotMoveLegal ==
    [][response'.op = "bot"
        => LET legal == Range(chessMoves(response'.fen))
           IN  /\ legal # {} => ~response'.threw /\ response'.move \in legal
               /\ legal = {} => /\ response'.threw
                                /\ response'.message = NoLegalMoves]_vars

\* The medium bot, asked in a position with three legal moves, returns the
\* second of them.
C30_Witness ==
    /\ response.op = "bot" /\ response.difficulty = "medium"
    /\ response.fen = "C" /\ response.move = "Qh5" /\ ~response.threw

RECURSIVE minimaxPlain(_, _, _)
\* The minimax value of a position searched to a depth with no pruning: the
\* material balance at depth 0 or at a finished game, else the greatest
\* (least) value among the children.
minimaxPlain(fen, depth, isMaximizing) ==
    IF depth = 0 \/ isGameOver(fen) THEN material(fen)
    ELSE LET values == {minimaxPlain(chessApply(fen, san), depth - 1, ~isMaximizing) :
                          san \in Range(chessMoves(fen))}
         IN  IF isMaximizing
             THEN CHOOSE v \in values : \A w \in values : v >= w
             ELSE CHOOSE v \in values : \A w \in values : v <= w

\* The value for White of playing san in fen, the opponent answering best.
moveValue(fen, san) ==
    minimaxPlain(chessApply(fen, san), 3, chessTurn(fen) # "w")

\* C31: the move the hard bot returns has the best minimax value for the
\* side to move among the legal moves: the highest when White is to move,
\* the lowest when Black is.
C31_HardBestForMover ==
    (response.op = "bot" /\ response.difficulty = "hard" /\ ~response.threw)
    => \A san \in Range(chessMoves(response.fen)) :
         IF chessTurn(response.fen) = "w"
         THEN moveValue(response.fen, response.move) >= moveValue(response.fen, san)
         ELSE moveValue(response.fen, response.move) <= moveValue(response.fen, san)

\* C32: in a position with exactly one legal move the hard bot returns that
\* move.
C32_HardOnlyMove ==
    (response.op = "bot" /\ response.difficulty = "hard"
       /\ Len(chessMoves(response.fen)) = 1)
    => ~response.threw /\ response.move = chessMoves(response.fen)[1]

\* The hard bot asked in the position whose only move is Kxf7.
C32_Witness ==
    /\ response.op = "bot" /\ response.difficulty = "hard"
    /\ response.fen = "DR" /\ response.move = "Kxf7"

\* The identity whose turn it is in a game.
playerToMove(game) ==
    IF game.currentTurn = "white" THEN game.whitePlayerId ELSE game.blackPlayerId

C34_FailedCommandLeavesNoTrace ==
    [][(response'.code = 500 /\ response'.op \in {"move", "matchmaking"})
        => /\ games' = games
           /\ gameMoves' = gameMoves
           /\ queue' = queue
           /\ users' = users]_vars

\* C35: once a session is completed no command sets its status back to
\* active or changes its result.
C35_CompletedAbsorbing ==
    [][\A g \in GameIds :
        games[g].status = "completed"
        => /\ games'[g].status = "completed"
           /\ games'[g].result = games[g].result]_vars

\* C36: the evaluation the hard bot returns for its move is the minimax
\* value of a search that looks 3 plies ahead of the root position, the
\* move itself being the first: 2 plies beyond the position the move leads to.
C36_HardLooksThreePlies ==
    (response.op = "bot" /\ response.difficulty = "hard" /\ ~response.threw)
    => response.evaluation =
         minimaxPlain(chessApply(response.fen, response.move), 2,
                      chessTurn(response.fen) # "w")

\* C37: minimax with alpha-beta pruning, started with the window
\* (-Infinity, +Infinity), returns the value of the same search without
\* pruning, for every position, depth and side to maximise.
C37_PruningKeepsValue ==
    response.op = "minimax"
    => response.value =
         minimaxPlain(response.fen, response.depth, response.isMaximizing)

\* A search of depth 3 from position C with the minimising side at the
\* root, in which a loop is cut with candidates left.
C37_Witness ==
    /\ response.op = "minimax" /\ response.fen = "C" /\ response.depth = 3
    /\ ~response.isMaximizing /\ response.value = 0

\* The score of the i-th candidate of the position the bot was asked about:
\* the search value at hard, material, check bonus and noise at medium.
candidateScore(i) ==
    LET san == chessMoves(response.fen)[i]
    IN  IF response.difficulty = "hard" THEN hardScore(response.fen, san)
        ELSE mediumScore(response.fen, san, response.noise[i])

\* C38: at hard and medium the move returned is the first, in the order of
\* enumeration, among the candidates with the greatest score.
C38_TiesByEncounterOrder ==
    (response.op = "bot" /\ response.difficulty \in {"hard", "medium"}
       /\ ~response.threw)
    => LET candidates == DOMAIN chessMoves(response.fen)
           maximal == {i \in candidates :
                         \A j \in candidates : candidateScore(i) >= candidateScore(j)}
           first == CHOOSE i \in maximal : \A j \in maximal : i <= j
       IN  /\ response.move = chessMoves(response.fen)[first]
           /\ response.evaluation = candidateScore(first)

\* The medium bot in position D with noise that makes both candidates score
\* one half point: the first of them, Nc3, is returned.
C38_Witness ==
    /\ response.op = "bot" /\ response.difficulty = "medium"
    /\ response.fen = "D" /\ response.noise = <<1, -2>>
    /\ candidateScore(1) = candidateScore(2)
    /\ response.move = "Nc3"

\* C39: every player's rating record has gamesPlayed = wins + losses + draws,
\* also when the updates of two sessions of the player interleave.
C39_GamesPlayedIsSum ==
    \A u \in Humans :
       users[u].gamesPlayed = users[u].wins + users[u].losses + users[u].draws

\* C40: the bot is never asked for a move in a position without legal
\* moves.  When a session is created with the bot as White the bot's first
\* move is stored with it; when the move handler finds a bot to reply after
\* an accepted move, the position it passes has a legal move and the reply
\* is stored in the same command.
C40_BotNeverOnTerminal ==
    [][/\ \A g \in GameIds' \ GameIds :
            startsWithBot(games'[g].whitePlayerId)
            => /\ Len(chessMoves(StartFen)) > 0
               /\ games'[g].moveCount = 1 /\ accepted'[g] = 1
       /\ \A g \in GameIds :
            (response'.op = "move" /\ response'.gameId = g /\ response'.code = 200)
            => LET updatedGame ==
                     getGame(moveWrites(DB, g, games[g], response'.userId,
                                        response'.san, response'.timeRemaining), g)
               IN  botToReply(updatedGame) # NoPlayer
                   => /\ Len(chessMoves(updatedGame.fen)) > 0
                      /\ accepted'[g] = accepted[g] + 2]_vars

\* A session in which the bot, as White, opened and then answered the
\* human's first move.
C40_Witness ==
    /\ response.op = "move" /\ response.code = 200
    /\ Len(games) = 1 /\ startsWithBot(games[1].whitePlayerId)
    /\ games[1].blackPlayerId = response.userId
    /\ games[1].moveCount = 3 /\ accepted[1] = 3

====
